---- MODULE Spec2Model ----
(***************************************************************************)
(* Model of the baseline-environment stacks: the application entry point   *)
(* (three BLEA stacks wired together), the constructors of BsEc2appStack,  *)
(* GcAlbFargateStack and GcInvestigationInstanceStack, and the resources   *)
(* those constructors declare (bucket policies, security groups, WebACL,   *)
(* CloudWatch alarms, auto scaling group) as they act once deployed.       *)
(***************************************************************************)
EXTENDS Integers, Sequences, FiniteSets, TLC

VARIABLES
  \* --- application entry point (src/unnamed/part_000) ---
  env,        \* process.env: [account, region]
  param,      \* devParameter
  run,        \* number of the current run of the entry point
  pc,         \* position in the entry point
  app,        \* construct tree of the App: sequence of stacks in creation order
  results,    \* run |-> [env, param, app] of each finished run
  \* --- stack constructors (src/lib) ---
  bs,         \* BsEc2appStack instance, or NotConstructed
  gc,         \* GcAlbFargateStack instance, or NotConstructed
  inv,        \* GcInvestigationInstanceStack instance, or NotConstructed
  \* --- S3 requests against the web content buckets ---
  s3req,      \* the last request
  s3dec,      \* its decision
  stored,     \* objects of the BsEc2app bucket: key |-> sse header of the PUT
  \* --- connections in the BsEc2app VPC ---
  flow,       \* hops of the current inbound connection
  refused,    \* the last connection attempt a security group refused
  \* --- WebACL evaluation ---
  wafReq,     \* rule groups the current request would be blocked by
  wafPos,     \* number of rules evaluated so far
  wafCounted, \* rules that counted the request
  wafVerdict, \* "none", "pending", "ALLOW" or "BLOCK"
  \* --- CloudWatch alarm evaluation ---
  alarm,      \* the alarm evaluated
  window,     \* most recent datapoints, newest last
  alarmState, \* "INSUFFICIENT_DATA", "OK" or "ALARM"
  pending,    \* topics a notification is still to be published to
  published,  \* topics a notification was published to
  notified,   \* the last entry into ALARM was published to the stack's topic
  \* --- auto scaling group of BsEc2app ---
  desired,    \* desired capacity
  instances,  \* instances of the group
  cpu         \* average CPU utilization of the group

entryVars == <<env, param, run, pc, app, results>>
ctorVars  == <<bs, gc, inv>>
s3Vars    == <<s3req, s3dec, stored>>
netVars   == <<flow, refused>>
wafVars   == <<wafReq, wafPos, wafCounted, wafVerdict>>
alarmVars == <<alarm, window, alarmState, pending, published, notified>>
asgVars   == <<desired, instances, cpu>>
vars == <<entryVars, ctorVars, s3Vars, netVars, wafVars, alarmVars, asgVars>>

\* What the steps of one part of the deployment leave alone.
EntryFrame == UNCHANGED <<ctorVars, s3Vars, netVars, wafVars, alarmVars, asgVars>>
CtorFrame == UNCHANGED <<entryVars, s3Vars, netVars, wafVars, alarmVars, asgVars>>
S3Frame == UNCHANGED <<entryVars, ctorVars, netVars, wafVars, alarmVars, asgVars>>
NetFrame == UNCHANGED <<entryVars, ctorVars, s3Vars, wafVars, alarmVars, asgVars>>
WafFrame == UNCHANGED <<entryVars, ctorVars, s3Vars, netVars, alarmVars, asgVars>>
AlarmFrame == UNCHANGED <<entryVars, ctorVars, s3Vars, netVars, wafVars, asgVars>>
AsgFrame == UNCHANGED <<entryVars, ctorVars, s3Vars, netVars, wafVars, alarmVars>>

\* JavaScript's undefined, for a value that is a construct reference.
Undefined == <<>>
\* A stack variable that no constructor has run for.
NotConstructed == [id |-> "", constructed |-> FALSE]

Range(f) == {f[i] : i \in DOMAIN f}

(***************************************************************************)
(* Application entry point                                                 *)
(***************************************************************************)

MaxRuns == 2

Accounts == {"111111111111", "222222222222"}
Regions  == {"ap-northeast-1", "us-east-1"}
Envs     == [account : Accounts, region : Regions]

DevParameters ==
  { [envName |-> "Development", monitoringNotifyEmail |-> "notify@example.com",
     monitoringSlackWorkspaceId |-> "TXXXXXXXXXX", monitoringSlackChannelId |-> "CYYYYYYYYYY",
     vpcCidr |-> "10.100.0.0/16", dashboardName |-> "BLEA-ECS-App-Sample",
     domainName |-> "example.com", hostedZoneId |-> "Z00000000000000000000",
     albHostName |-> "alb", cloudFrontHostName |-> "www"],
    [envName |-> "Staging", monitoringNotifyEmail |-> "notify@example.org",
     monitoringSlackWorkspaceId |-> "TXXXXXXXXXX", monitoringSlackChannelId |-> "CYYYYYYYYYY",
     vpcCidr |-> "10.200.0.0/16", dashboardName |-> "BLEA-ECS-App-Sample",
     domainName |-> "example.org", hostedZoneId |-> "Z11111111111111111111",
     albHostName |-> "alb", cloudFrontHostName |-> "cdn"] }

EcsAppId     == "BLEAEcsAppSampleDev"
FrontendId   == "BLEAEcsFrontendSampleDev"
MonitoringId == "BLEAEcsMonitoringSampleDev"

NoRefs == [n \in {} |-> Undefined]

\* const app = new App(): a fresh, empty construct tree.
\* Variant: an App kept from the previous run instead of a fresh one.
NewAppKeepsTree == app
NewApp == <<>>

\* Whether the stack `id` has been constructed in `tree`.
Constructed(tree, id) == \E i \in DOMAIN tree : tree[i].id = id

\* stackVariable.output, read while the props of a later stack are built: a
\* reference to the output of an already constructed stack, undefined otherwise.
Output(tree, id, name) == IF Constructed(tree, id) THEN <<id, name>> ELSE Undefined

\* new Stack(app, id, props): the stack as the entry point configures it.
NewStack(id, props) == [id |-> id, props |-> props.props, refs |-> props.refs, env |-> props.env]

EcsAppProps(p, e, tree) ==
  [props |-> [monitoringNotifyEmail |-> p.monitoringNotifyEmail,
              monitoringSlackWorkspaceId |-> p.monitoringSlackWorkspaceId,
              monitoringSlackChannelId |-> p.monitoringSlackChannelId,
              vpcCidr |-> p.vpcCidr, hostedZoneId |-> p.hostedZoneId,
              domainName |-> p.domainName, albHostName |-> p.albHostName,
              tagRepository |-> "aws-samples/baseline-environment-on-aws",
              tagEnvironment |-> p.envName, crossRegionReferences |-> "true"],
   refs |-> NoRefs,
   env |-> [account |-> e.account, region |-> e.region]]

\* Variant: the frontend stack wired to the alarm topic of the monitoring stack.
FrontendPropsFromMonitoring(p, e, tree) ==
  [props |-> [hostedZoneId |-> p.hostedZoneId, domainName |-> p.domainName,
              albHostName |-> p.albHostName, cloudFrontHostName |-> p.cloudFrontHostName,
              crossRegionReferences |-> "true"],
   refs |-> [alarmTopic |-> Output(tree, MonitoringId, "alarmTopic")],
   env |-> [account |-> e.account, region |-> "us-east-1"]]
FrontendProps(p, e, tree) ==
  [props |-> [hostedZoneId |-> p.hostedZoneId, domainName |-> p.domainName,
              albHostName |-> p.albHostName, cloudFrontHostName |-> p.cloudFrontHostName,
              crossRegionReferences |-> "true"],
   refs |-> [alarmTopic |-> Output(tree, EcsAppId, "alarmTopic")],
   env |-> [account |-> e.account, region |-> "us-east-1"]]

MonitoringProps(p, e, tree) ==
  [props |-> [appEndpoint |-> p.cloudFrontHostName \o "." \o p.domainName,
              dashboardName |-> p.dashboardName, crossRegionReferences |-> "true"],
   refs |-> [alarmTopic |-> Output(tree, EcsAppId, "alarmTopic"),
             albFullName |-> Output(tree, EcsAppId, "albFullName"),
             albTargetGroupName |-> Output(tree, EcsAppId, "albTargetGroupName"),
             albTargetGroupUnhealthyHostCountAlarm |->
               Output(tree, EcsAppId, "albTargetGroupUnhealthyHostCountAlarm"),
             ecsClusterName |-> Output(tree, EcsAppId, "ecsClusterName"),
             ecsServiceName |-> Output(tree, EcsAppId, "ecsServiceName"),
             ecsScaleOnRequestCount |-> Output(tree, EcsAppId, "ecsScaleOnRequestCount"),
             ecsTargetUtilizationPercent |-> Output(tree, EcsAppId, "ecsTargetUtilizationPercent"),
             dbClusterName |-> Output(tree, EcsAppId, "dbClusterName"),
             distributionId |-> Output(tree, FrontendId, "distributionId")],
   env |-> [account |-> e.account, region |-> e.region]]

EntryInit ==
  /\ env \in Envs
  /\ param \in DevParameters
  /\ run = 1
  /\ pc = "start"
  /\ app = <<>>
  /\ results = <<>>

\* line 8
CreateApp ==
  /\ EntryFrame
  /\ pc = "start"
  /\ app' = NewApp
  /\ pc' = "ecsapp"
  /\ UNCHANGED <<env, param, run, results>>

\* lines 10-30
ConstructEcsApp ==
  /\ EntryFrame
  /\ pc = "ecsapp"
  /\ app' = Append(app, NewStack(EcsAppId, EcsAppProps(param, env, app)))
  /\ pc' = "frontend"
  /\ UNCHANGED <<env, param, run, results>>

\* lines 32-48
ConstructFrontend ==
  /\ EntryFrame
  /\ pc = "frontend"
  /\ app' = Append(app, NewStack(FrontendId, FrontendProps(param, env, app)))
  /\ pc' = "monitoring"
  /\ UNCHANGED <<env, param, run, results>>

\* lines 50-75
ConstructMonitoring ==
  /\ EntryFrame
  /\ pc = "monitoring"
  /\ app' = Append(app, NewStack(MonitoringId, MonitoringProps(param, env, app)))
  /\ pc' = "synth"
  /\ UNCHANGED <<env, param, run, results>>

\* The process ends: the construct tree is the synthesized result of the run.
EndOfRun ==
  /\ EntryFrame
  /\ pc = "synth"
  /\ results' = Append(results, [env |-> env, param |-> param, app |-> app])
  /\ pc' = "done"
  /\ UNCHANGED <<env, param, run, app>>

\* The entry point is run again, in a new process, with whatever environment
\* and parameter values that run is started from.
StartRun ==
  /\ EntryFrame
  /\ pc = "done"
  /\ run < MaxRuns
  /\ run' = run + 1
  /\ env' \in Envs
  /\ param' \in DevParameters
  /\ pc' = "start"
  /\ UNCHANGED <<app, results>>

EntryNext ==
  \/ CreateApp
  \/ ConstructEcsApp
  \/ ConstructFrontend
  \/ ConstructMonitoring
  \/ EndOfRun
  \/ StartRun

(***************************************************************************)
(* Constructs used by the stack constructors                               *)
(***************************************************************************)

AnyIpv4 == [kind |-> "cidr", ref |-> <<"0.0.0.0/0">>]
SgPeer(sg) == [kind |-> "sg", ref |-> sg.id]
Tcp(port) == [proto |-> "tcp", from |-> port, to |-> port]
AllTcp == [proto |-> "tcp", from |-> 0, to |-> 65535]
AllTraffic == [proto |-> "-1", from |-> 0, to |-> 65535]
Rule(peer, port) == [peer |-> peer, proto |-> port.proto, from |-> port.from, to |-> port.to]

\* new ec2.SecurityGroup(stack, cid, {vpc, allowAllOutbound})
SecurityGroup(stack, cid, vpc, allowAllOutbound) ==
  [id |-> <<stack, cid>>, vpc |-> vpc, allowAllOutbound |-> allowAllOutbound,
   ingress |-> {},
   egress |-> IF allowAllOutbound THEN {Rule(AnyIpv4, AllTraffic)} ELSE {}]
AddIngressRule(sg, peer, port) == [sg EXCEPT !.ingress = @ \cup {Rule(peer, port)}]
AddEgressRule(sg, peer, port) ==
  IF sg.allowAllOutbound THEN sg ELSE [sg EXCEPT !.egress = @ \cup {Rule(peer, port)}]

\* ARNs and action names are sequences of tokens; the token "*" of a pattern
\* stands for any sequence of tokens.
BucketArn(stack, cid) == <<"arn:aws:s3:::" \o stack \o "-" \o cid>>
ArnForObjects(bucketArn, keyPattern) == bucketArn \o <<"/">> \o keyPattern

Statement(effect, actions, resources, conditions) ==
  [effect |-> effect, principals |-> {"*"}, actions |-> actions,
   resources |-> resources, conditions |-> conditions]

(***************************************************************************)
(* BsEc2appStack (src/lib/bs-ec2app-stack.ts)                              *)
(***************************************************************************)

Vpcs == {"vpc-prod-a", "vpc-prod-b"}
Environments == {"dev", "prod"}
AppKeys == {"key-1", "key-2"}
Topics == {"topic-alarm", "topic-other"}

BsEc2appStackPropsSet ==
  [prodVpc : Vpcs, environment : Environments, logBucket : {"log-bucket"}, appKey : AppKeys]

\* lines 27-32
BsSecurityGroupForAlb(id, props) ==
  AddEgressRule(
    AddIngressRule(SecurityGroup(id, "security-group-for-alb", props.prodVpc, FALSE),
                   AnyIpv4, Tcp(80)),
    AnyIpv4, AllTcp)

\* lines 35-40
\* Variant: the application group opened to any IPv4 peer.
BsSecurityGroupForAppOpen(id, props) ==
  AddEgressRule(
    AddIngressRule(SecurityGroup(id, "security-group-for-app", props.prodVpc, FALSE),
                   AnyIpv4, Tcp(80)),
    AnyIpv4, AllTcp)
BsSecurityGroupForApp(id, props) ==
  AddEgressRule(
    AddIngressRule(SecurityGroup(id, "security-group-for-app", props.prodVpc, FALSE),
                   SgPeer(BsSecurityGroupForAlb(id, props)), Tcp(80)),
    AnyIpv4, AllTcp)

\* lines 70-80: Prevent access without SSL
BsDenyInsecureTransport(bucketArn) ==
  Statement("Deny", {<<"s3:", "*">>}, {bucketArn},
            {[op |-> "Bool", key |-> "aws:SecureTransport", value |-> "false"]})

\* lines 82-92: Prevent putting data without encryption
\* Variant: the condition written with StringEquals.
BsDenyUnencryptedPutWhenEqual(bucketArn) ==
  Statement("Deny", {<<"s3:", "PutObject">>}, {ArnForObjects(bucketArn, <<"*">>)},
            {[op |-> "StringEquals", key |-> "s3:x-amz-server-side-encryption",
              value |-> "AES256"]})
BsDenyUnencryptedPut(bucketArn) ==
  Statement("Deny", {<<"s3:", "PutObject">>}, {ArnForObjects(bucketArn, <<"*">>)},
            {[op |-> "StringNotEquals", key |-> "s3:x-amz-server-side-encryption",
              value |-> "AES256"]})

\* lines 54-92
BsWebContentBucket(id, props) ==
  LET arn == BucketArn(id, "web-content-bucket") IN
  [arn |-> arn, accessControl |-> "Private", versioned |-> FALSE,
   encryption |-> "KMS", encryptionKey |-> props.appKey,
   expirationDays |-> 2555, glacierAfterDays |-> 90,
   policy |-> <<BsDenyInsecureTransport(arn), BsDenyUnencryptedPut(arn)>>]

\* lines 174-184
BsTgForApp(id, props) ==
  [id |-> <<id, "tg-for-app">>, vpc |-> props.prodVpc, port |-> 80, protocol |-> "HTTP",
   targetType |-> "instance", healthCheckPath |-> "/index.html", deregistrationDelay |-> 60]

\* lines 118-143, 196
\* Variant: a group with capacity limits 0 and 5.
BsFleetForAppUnbounded(id, props) ==
  [id |-> <<id, "auto-scaling-group-app">>,
   minCapacity |-> 0, maxCapacity |-> 5,
   vpc |-> props.prodVpc, subnetGroupName |-> "ProdPrivateSubnet",
   instanceType |-> "t3.micro", machineImage |-> "AMAZON_LINUX_2",
   securityGroup |-> BsSecurityGroupForApp(id, props).id,
   role |-> <<id, "ssm-instance-role">>,
   healthCheck |-> [type |-> "ELB", grace |-> 60],
   scaling |-> [id |-> "keepSpareCPU", targetUtilizationPercent |-> 50],
   targetGroups |-> {BsTgForApp(id, props).id}]
BsFleetForApp(id, props) ==
  [id |-> <<id, "auto-scaling-group-app">>,
   minCapacity |-> 2, maxCapacity |-> 4,
   vpc |-> props.prodVpc, subnetGroupName |-> "ProdPrivateSubnet",
   instanceType |-> "t3.micro", machineImage |-> "AMAZON_LINUX_2",
   securityGroup |-> BsSecurityGroupForApp(id, props).id,
   role |-> <<id, "ssm-instance-role">>,
   healthCheck |-> [type |-> "ELB", grace |-> 60],
   scaling |-> [id |-> "keepSpareCPU", targetUtilizationPercent |-> 50],
   targetGroups |-> {BsTgForApp(id, props).id}]

\* lines 162-170
BsLbForApp(id, props) ==
  [id |-> <<id, "alb-for-app">>, vpc |-> props.prodVpc, internetFacing |-> TRUE,
   securityGroup |-> BsSecurityGroupForAlb(id, props).id,
   subnetGroupName |-> "ProdPublicSubnet", accessLogs |-> <<id, "alb-log-bucket">>]

\* lines 189-193
BsListener(id, props) ==
  [id |-> <<id, "alb-listener-for-app">>, loadBalancer |-> BsLbForApp(id, props).id,
   port |-> 80, open |-> TRUE, defaultTargetGroups |-> {BsTgForApp(id, props).id}]

\* The constructor, lines 20-198.  addListener with open: true admits any IPv4
\* peer to the listener's port on the load balancer's security group, and
\* attaching the fleet to the target group of a listener admits the load
\* balancer to the target group's port on the fleet's security group (with the
\* matching egress rule on the load balancer's side).
BsEc2appStack(id, props) ==
  LET listener == BsListener(id, props)
      tg == BsTgForApp(id, props)
      sgAlb0 == BsSecurityGroupForAlb(id, props)
      sgApp0 == BsSecurityGroupForApp(id, props)
      sgAlb1 == IF listener.open THEN AddIngressRule(sgAlb0, AnyIpv4, Tcp(listener.port))
                ELSE sgAlb0
      attached == tg.id \in BsFleetForApp(id, props).targetGroups
                  /\ tg.id \in listener.defaultTargetGroups
      sgApp == IF attached THEN AddIngressRule(sgApp0, SgPeer(sgAlb0), Tcp(tg.port))
               ELSE sgApp0
      sgAlb == IF attached THEN AddEgressRule(sgAlb1, SgPeer(sgApp0), Tcp(tg.port))
               ELSE sgAlb1
  IN [id |-> id, constructed |-> TRUE, props |-> props,
      securityGroups |-> {sgAlb, sgApp},
      securityGroupForAlb |-> sgAlb.id,
      appServerSecurityGroup |-> sgApp0.id,
      webContentBucket |-> BsWebContentBucket(id, props),
      fleetForApp |-> BsFleetForApp(id, props),
      lbForApp |-> BsLbForApp(id, props),
      tgForApp |-> tg,
      listeners |-> {listener}]

(***************************************************************************)
(* GcAlbFargateStack (src/lib/gc-alb-fargate-stack.ts)                     *)
(***************************************************************************)

GcAlbFargateStackPropsSet ==
  [prodVpc : Vpcs, environment : Environments, logBucket : {"log-bucket"},
   appKey : AppKeys, alarmTopic : Topics]

\* lines 40-45
GcSecurityGroupForAlb(id, props) ==
  AddEgressRule(
    AddIngressRule(SecurityGroup(id, "SgAlb", props.prodVpc, FALSE), AnyIpv4, Tcp(80)),
    AnyIpv4, AllTcp)

\* lines 72-82: Prevent access without SSL
GcDenyInsecureTransport(bucketArn) ==
  Statement("Deny", {<<"s3:", "*">>}, {bucketArn \o <<"/", "*">>},
            {[op |-> "Bool", key |-> "aws:SecureTransport", value |-> "false"]})

\* lines 50-82
GcWebContentBucket(id, props) ==
  LET arn == BucketArn(id, "WebBucket") IN
  [arn |-> arn, accessControl |-> "Private", versioned |-> FALSE,
   encryption |-> "S3_MANAGED", blockPublicAccess |-> "BLOCK_ALL",
   corsAllowedOrigins |-> {"https://example.com", "https://www.example.com"},
   corsAllowedMethods |-> {"GET", "HEAD"},
   expirationDays |-> 2555, glacierAfterDays |-> 90,
   policy |-> <<GcDenyInsecureTransport(arn)>>]

\* lines 105-113
GcLbForApp(id, props) ==
  [id |-> <<id, "Alb">>, vpc |-> props.prodVpc, internetFacing |-> TRUE,
   securityGroup |-> GcSecurityGroupForAlb(id, props).id,
   subnetGroupName |-> "Public", accessLogs |-> <<id, "alb-log-bucket">>]

\* lines 119-136: the cluster and the load balanced Fargate service, which
\* brings the security group of its tasks.
GcAlbFargate(id, props) ==
  [cluster |-> <<id, "Cluster">>, service |-> <<id, "AlbFargate", "Service">>,
   loadBalancer |-> GcLbForApp(id, props).id, taskSubnetGroupName |-> "Private",
   image |-> "amazon/amazon-ecs-sample",
   targetGroup |-> <<id, "AlbFargate", "TargetGroup">>,
   deregistrationDelay |-> "30",
   serviceSecurityGroup |->
     SecurityGroup(id, "AlbFargate/Service/SecurityGroup", props.prodVpc, TRUE)]

\* lines 140-149
FargateCpuUtilAlarm(props) ==
  [id |-> "FargateCpuUtil", metricName |-> "CPUUtilization", period |-> 60,
   statistic |-> "Average", evaluationPeriods |-> 3, datapointsToAlarm |-> 3,
   threshold |-> 80, comparisonOperator |-> "GreaterThanOrEqualToThreshold",
   actionsEnabled |-> TRUE, alarmActions |-> <<[sns |-> props.alarmTopic]>>]

\* lines 154-169
\* Variant: all 3 datapoints needed to alarm.
RunningTaskCountAlarmAllThree(props) ==
  [id |-> "RunningTaskCount", metricName |-> "RunningTaskCount", period |-> 60,
   statistic |-> "Average", evaluationPeriods |-> 3, datapointsToAlarm |-> 3,
   threshold |-> 1, comparisonOperator |-> "LessThanThreshold",
   actionsEnabled |-> TRUE, alarmActions |-> <<[sns |-> props.alarmTopic]>>]
RunningTaskCountAlarm(props) ==
  [id |-> "RunningTaskCount", metricName |-> "RunningTaskCount", period |-> 60,
   statistic |-> "Average", evaluationPeriods |-> 3, datapointsToAlarm |-> 2,
   threshold |-> 1, comparisonOperator |-> "LessThanThreshold",
   actionsEnabled |-> TRUE, alarmActions |-> <<[sns |-> props.alarmTopic]>>]

\* lines 176-184 (no datapointsToAlarm given)
AlbResponseTimeAlarm(props) ==
  [id |-> "AlbResponseTime", metricName |-> "TargetResponseTime", period |-> 60,
   statistic |-> "Average", evaluationPeriods |-> 3,
   threshold |-> 100, comparisonOperator |-> "GreaterThanOrEqualToThreshold",
   actionsEnabled |-> TRUE, alarmActions |-> <<[sns |-> props.alarmTopic]>>]

\* lines 187-195
AlbHttp4xxAlarm(props) ==
  [id |-> "AlbHttp4xx", metricName |-> "HTTPCode_ELB_4XX_Count", period |-> 60,
   statistic |-> "Sum", evaluationPeriods |-> 3,
   threshold |-> 10, comparisonOperator |-> "GreaterThanOrEqualToThreshold",
   actionsEnabled |-> TRUE, alarmActions |-> <<[sns |-> props.alarmTopic]>>]

\* lines 198-206
\* Variant: the alarm without its addAlarmAction.
AlbHttp5xxAlarmNoAction(props) ==
  [id |-> "AlbHttp5xx", metricName |-> "HTTPCode_ELB_5XX_Count", period |-> 60,
   statistic |-> "Sum", evaluationPeriods |-> 3,
   threshold |-> 10, comparisonOperator |-> "GreaterThanOrEqualToThreshold",
   actionsEnabled |-> TRUE, alarmActions |-> <<>>]
AlbHttp5xxAlarm(props) ==
  [id |-> "AlbHttp5xx", metricName |-> "HTTPCode_ELB_5XX_Count", period |-> 60,
   statistic |-> "Sum", evaluationPeriods |-> 3,
   threshold |-> 10, comparisonOperator |-> "GreaterThanOrEqualToThreshold",
   actionsEnabled |-> TRUE, alarmActions |-> <<[sns |-> props.alarmTopic]>>]

\* lines 209-217
AlbTgHealthyHostCountAlarm(props) ==
  [id |-> "AlbTgHealthyHostCount", metricName |-> "HealthyHostCount", period |-> 60,
   statistic |-> "Average", evaluationPeriods |-> 3,
   threshold |-> 2, comparisonOperator |-> "LessThanThreshold",
   actionsEnabled |-> TRUE, alarmActions |-> <<[sns |-> props.alarmTopic]>>]

\* The alarms of the stack, in creation order.
GcAlarms(props) ==
  <<FargateCpuUtilAlarm(props), RunningTaskCountAlarm(props), AlbResponseTimeAlarm(props),
    AlbHttp4xxAlarm(props), AlbHttp5xxAlarm(props), AlbTgHealthyHostCountAlarm(props)>>

\* lines 233-248
GcRuleCommon ==
  [priority |-> 1, overrideAction |-> "count",
   sampledRequestsEnabled |-> TRUE, cloudWatchMetricsEnabled |-> TRUE,
   metricName |-> "AWS-AWSManagedRulesCommonRuleSet",
   name |-> "AWSManagedRulesCommonRuleSet",
   statement |-> [vendorName |-> "AWS", name |-> "AWSManagedRulesCommonRuleSet"]]

\* lines 249-264
GcRuleKnownBadInputs ==
  [priority |-> 2, overrideAction |-> "count",
   sampledRequestsEnabled |-> TRUE, cloudWatchMetricsEnabled |-> TRUE,
   metricName |-> "AWS-AWSManagedRulesKnownBadInputsRuleSet",
   name |-> "AWSManagedRulesKnownBadInputsRuleSet",
   statement |-> [vendorName |-> "AWS", name |-> "AWSManagedRulesKnownBadInputsRuleSet"]]

\* lines 265-280
GcRuleIpReputation ==
  [priority |-> 3, overrideAction |-> "count",
   sampledRequestsEnabled |-> TRUE, cloudWatchMetricsEnabled |-> TRUE,
   metricName |-> "AWS-AWSManagedRulesAmazonIpReputationList",
   name |-> "AWSManagedRulesAmazonIpReputationList",
   statement |-> [vendorName |-> "AWS", name |-> "AWSManagedRulesAmazonIpReputationList"]]

\* lines 281-296
GcRuleLinux ==
  [priority |-> 4, overrideAction |-> "count",
   sampledRequestsEnabled |-> TRUE, cloudWatchMetricsEnabled |-> TRUE,
   metricName |-> "AWS-AWSManagedRulesLinuxRuleSet",
   name |-> "AWSManagedRulesLinuxRuleSet",
   statement |-> [vendorName |-> "AWS", name |-> "AWSManagedRulesLinuxRuleSet"]]

\* lines 297-312
\* Variant: the rule without overrideAction count.
GcRuleSQLiNoOverride ==
  [priority |-> 5, overrideAction |-> "none",
   sampledRequestsEnabled |-> TRUE, cloudWatchMetricsEnabled |-> TRUE,
   metricName |-> "AWS-AWSManagedRulesSQLiRuleSet",
   name |-> "AWSManagedRulesSQLiRuleSet",
   statement |-> [vendorName |-> "AWS", name |-> "AWSManagedRulesSQLiRuleSet"]]
GcRuleSQLi ==
  [priority |-> 5, overrideAction |-> "count",
   sampledRequestsEnabled |-> TRUE, cloudWatchMetricsEnabled |-> TRUE,
   metricName |-> "AWS-AWSManagedRulesSQLiRuleSet",
   name |-> "AWSManagedRulesSQLiRuleSet",
   statement |-> [vendorName |-> "AWS", name |-> "AWSManagedRulesSQLiRuleSet"]]

\* lines 223-314
GcWebAcl(id) ==
  [id |-> <<id, "WebAcl">>, defaultAction |-> "allow", name |-> "GcWebAcl",
   scope |-> "REGIONAL", metricName |-> "GcWebAcl",
   cloudWatchMetricsEnabled |-> TRUE, sampledRequestsEnabled |-> TRUE,
   rules |-> <<GcRuleCommon, GcRuleKnownBadInputs, GcRuleIpReputation, GcRuleLinux,
               GcRuleSQLi>>]

\* lines 316-319
GcWebAclAssociation(id, props) ==
  [id |-> <<id, "BsWebAclAssociation">>, resource |-> GcLbForApp(id, props).id,
   webAcl |-> GcWebAcl(id).id]

\* The constructor, lines 28-322.  this.appServerSecurityGroup is declared
\* (line 26) and no statement of the constructor assigns it.
GcAlbFargateStack(id, props) ==
  [id |-> id, constructed |-> TRUE, props |-> props,
   securityGroups |-> {GcSecurityGroupForAlb(id, props),
                       GcAlbFargate(id, props).serviceSecurityGroup},
   securityGroupForAlb |-> GcSecurityGroupForAlb(id, props).id,
   appServerSecurityGroup |-> Undefined,
   webContentBucket |-> GcWebContentBucket(id, props),
   distributionOrigin |-> GcWebContentBucket(id, props).arn,
   lbForApp |-> GcLbForApp(id, props),
   albFargate |-> GcAlbFargate(id, props),
   alarms |-> GcAlarms(props),
   webAcl |-> GcWebAcl(id),
   webAclAssociations |-> {GcWebAclAssociation(id, props)}]

(***************************************************************************)
(* GcInvestigationInstanceStack                                            *)
(* (src/lib/gc-investigation-instance-stack.ts)                            *)
(***************************************************************************)

GcInvestigationInstanceStackPropsSet == [prodVpc : Vpcs, environment : Environments]

\* lines 18-20
InvSecurityGroupForEc2(id, props) == SecurityGroup(id, "SgEC2", props.prodVpc, TRUE)

\* The constructor, lines 14-58.  this.InvestigationInstanceSecurityGroup is
\* declared (line 12) and no statement of the constructor assigns it.
GcInvestigationInstanceStack(id, props) ==
  [id |-> id, constructed |-> TRUE, props |-> props,
   securityGroups |-> {InvSecurityGroupForEc2(id, props)},
   InvestigationInstanceSecurityGroup |-> Undefined,
   instance |-> [id |-> <<id, "Investigation">>, vpc |-> props.prodVpc,
                 subnetGroupName |-> "Protected", instanceType |-> "t3.micro",
                 machineImage |-> "AMAZON_LINUX_2",
                 securityGroup |-> InvSecurityGroupForEc2(id, props).id,
                 role |-> <<id, "ssm-instance-role">>,
                 tags |-> [Environment |-> props.environment, Name |-> "Investigation"]]]

(***************************************************************************)
(* Construction of the three stacks                                        *)
(***************************************************************************)

BsId  == "BsEc2app"
GcId  == "GcAlbFargate"
InvId == "GcInvestigationInstance"

NewBsEc2appStack(props) ==
  /\ CtorFrame
  /\ ~bs.constructed
  /\ bs' = BsEc2appStack(BsId, props)
  /\ UNCHANGED <<gc, inv>>

NewGcAlbFargateStack(props) ==
  /\ CtorFrame
  /\ ~gc.constructed
  /\ gc' = GcAlbFargateStack(GcId, props)
  /\ UNCHANGED <<bs, inv>>

NewGcInvestigationInstanceStack(props) ==
  /\ CtorFrame
  /\ ~inv.constructed
  /\ inv' = GcInvestigationInstanceStack(InvId, props)
  /\ UNCHANGED <<bs, gc>>

CtorNext ==
  \/ \E props \in BsEc2appStackPropsSet : NewBsEc2appStack(props)
  \/ \E props \in GcAlbFargateStackPropsSet : NewGcAlbFargateStack(props)
  \/ \E props \in GcInvestigationInstanceStackPropsSet : NewGcInvestigationInstanceStack(props)

(***************************************************************************)
(* Requests to the web content buckets, decided by the bucket policies     *)
(***************************************************************************)

\* Whether the token sequence s matches pattern p, "*" standing for any
\* sequence of tokens.
RECURSIVE Glob(_, _)
Glob(p, s) ==
  IF p = <<>> THEN s = <<>>
  ELSE IF Head(p) = "*"
       THEN Glob(Tail(p), s) \/ (s # <<>> /\ Glob(p, Tail(s)))
       ELSE s # <<>> /\ Head(s) = Head(p) /\ Glob(Tail(p), Tail(s))

\* A condition of a statement against the request context: a key missing from
\* the context fails a positive operator and satisfies a negated one.
ConditionHolds(c, ctx) ==
  IF c.op = "StringNotEquals"
  THEN c.key \notin DOMAIN ctx \/ ctx[c.key] # c.value
  ELSE c.key \in DOMAIN ctx /\ ctx[c.key] = c.value

StatementApplies(st, req) ==
  /\ "*" \in st.principals \/ req.principal \in st.principals
  /\ \E a \in st.actions : Glob(a, req.action)
  /\ \E r \in st.resources : Glob(r, req.resource)
  /\ \A c \in st.conditions : ConditionHolds(c, req.context)

\* An explicit deny of the bucket policy wins; the policy holds no allow, so
\* anything else is decided by the caller's identity policy.
Decide(policy, req) ==
  IF \E i \in DOMAIN policy : policy[i].effect = "Deny" /\ StatementApplies(policy[i], req)
  THEN "Deny"
  ELSE IF req.identityAllows THEN "Allow" ELSE "ImplicitDeny"

Principals == {"anonymous", "arn:aws:iam::111111111111:role/app"}
Keys == {<<"index.html">>, <<"img", "/", "logo.png">>}
ObjectActions == {"GetObject", "PutObject", "DeleteObject"}
BucketActions == {"ListBucket", "GetBucketPolicy"}
SseHeaders == {"absent", "AES256", "aws:kms"}
NoKey == <<>>

\* The request context S3 hands to the policy evaluation.
Context(secure, sse) ==
  LET transport == [k \in {"aws:SecureTransport"} |-> IF secure THEN "true" ELSE "false"]
  IN IF sse = "absent" THEN transport
     ELSE [k \in {"aws:SecureTransport", "s3:x-amz-server-side-encryption"} |->
             IF k = "aws:SecureTransport" THEN transport[k] ELSE sse]

\* An object action addresses the object, a bucket action the bucket.
Request(stack, principal, action, key, secure, sse, identityAllows) ==
  [stack |-> stack.id, principal |-> principal, action |-> <<"s3:", action>>,
   key |-> key,
   resource |-> IF key = NoKey THEN stack.webContentBucket.arn
                ELSE ArnForObjects(stack.webContentBucket.arn, key),
   secure |-> secure, sse |-> sse, context |-> Context(secure, sse),
   identityAllows |-> identityAllows]

NoRequest ==
  [stack |-> "", principal |-> "", action |-> <<>>, key |-> NoKey, resource |-> <<>>,
   secure |-> TRUE, sse |-> "absent", context |-> Context(TRUE, "absent"),
   identityAllows |-> FALSE]

DeployedBsProps ==
  [prodVpc |-> "vpc-prod-a", environment |-> "prod", logBucket |-> "log-bucket",
   appKey |-> "key-1"]
DeployedGcProps ==
  [prodVpc |-> "vpc-prod-a", environment |-> "prod", logBucket |-> "log-bucket",
   appKey |-> "key-1", alarmTopic |-> "topic-alarm"]

S3Init ==
  /\ s3req = NoRequest
  /\ s3dec = "none"
  /\ stored = [k \in Keys |-> "none"]

\* A request to the web content bucket of `stack`.  An allowed PutObject on
\* the BsEc2app bucket stores the object, with the header it was put with.
S3Request(stack, principal, action, key, secure, sse, identityAllows) ==
  LET req == Request(stack, principal, action, key, secure, sse, identityAllows)
      dec == Decide(stack.webContentBucket.policy, req)
  IN /\ S3Frame
     /\ stack.constructed
     /\ s3req' = req
     /\ s3dec' = dec
     /\ stored' = IF stack.id = BsId /\ dec = "Allow" /\ key # NoKey
                  THEN IF action = "PutObject" THEN [stored EXCEPT ![key] = sse]
                       ELSE IF action = "DeleteObject" THEN [stored EXCEPT ![key] = "none"]
                       ELSE stored
                  ELSE stored

ObjectRequest(stack) ==
  \E principal \in Principals, action \in ObjectActions, key \in Keys,
     secure \in BOOLEAN, sse \in SseHeaders, identityAllows \in BOOLEAN :
       /\ sse # "absent" => action = "PutObject"
       /\ S3Request(stack, principal, action, key, secure, sse, identityAllows)

BucketRequest(stack) ==
  \E principal \in Principals, action \in BucketActions,
     secure \in BOOLEAN, identityAllows \in BOOLEAN :
       S3Request(stack, principal, action, NoKey, secure, "absent", identityAllows)

S3Next ==
  \/ ObjectRequest(bs)
  \/ ObjectRequest(gc)
  \/ BucketRequest(bs)
  \/ BucketRequest(gc)

(***************************************************************************)
(* Connections in the VPC of BsEc2appStack, decided by its security groups *)
(***************************************************************************)

MaxHops == 4

\* "internet" is a peer outside the VPC, "other" an instance of the VPC that
\* belongs to neither security group of the stack.
Apps == {"app1", "app2"}
Nodes == {"internet", "other", "alb"} \cup Apps
Protocols == {"tcp", "udp"}
Ports == {22, 80, 443}

SgById(stack, id) == CHOOSE sg \in stack.securityGroups : sg.id = id

\* The security groups a node is a member of: the load balancer carries the
\* group given to it (line 165), an instance of the fleet the group of the
\* fleet (line 132).
GroupsOf(stack, node) ==
  IF node = "alb" THEN {stack.lbForApp.securityGroup}
  ELSE IF node \in Apps THEN {stack.fleetForApp.securityGroup}
  ELSE {}

PeerMatches(stack, peer, node) ==
  IF peer.kind = "cidr" THEN peer.ref = <<"0.0.0.0/0">>
  ELSE peer.ref \in GroupsOf(stack, node)

RuleMatches(stack, r, node, proto, port) ==
  /\ PeerMatches(stack, r.peer, node)
  /\ r.proto = "-1" \/ (r.proto = proto /\ port >= r.from /\ port <= r.to)

\* A connection is admitted when a group of the destination has an ingress
\* rule for the source and, for a source inside the stack, a group of the
\* source has an egress rule for the destination.
IngressAdmits(stack, src, dst, proto, port) ==
  \E g \in GroupsOf(stack, dst) :
    \E r \in SgById(stack, g).ingress : RuleMatches(stack, r, src, proto, port)

EgressAdmits(stack, src, dst, proto, port) ==
  GroupsOf(stack, src) = {} \/
  \E g \in GroupsOf(stack, src) :
    \E r \in SgById(stack, g).egress : RuleMatches(stack, r, dst, proto, port)

Admitted(stack, src, dst, proto, port) ==
  IngressAdmits(stack, src, dst, proto, port) /\ EgressAdmits(stack, src, dst, proto, port)

\* The instances the load balancer forwards a connection accepted on `port` to,
\* and the port it forwards to: the targets of the default target groups of the
\* listener on that port, which are the instances of the fleet attached to them.
ForwardTargets(stack, port) ==
  {t \in Apps \X Ports :
     \E l \in stack.listeners :
       /\ l.loadBalancer = stack.lbForApp.id /\ l.port = port
       /\ stack.tgForApp.id \in l.defaultTargetGroups
       /\ stack.tgForApp.id \in stack.fleetForApp.targetGroups
       /\ t[2] = stack.tgForApp.port}

Hop(node, proto, port) == [node |-> node, proto |-> proto, port |-> port]
NoAttempt == [src |-> "", dst |-> "", proto |-> "", port |-> 0]
Last(seq) == seq[Len(seq)]

NetInit ==
  /\ flow = <<>>
  /\ refused = NoAttempt

\* A peer opens a connection.
Originate(node) ==
  /\ NetFrame
  /\ node \in Nodes \ {"alb"}
  /\ flow' = <<Hop(node, "", 0)>>
  /\ refused' = NoAttempt

\* The node the connection has reached (not the load balancer, which only
\* forwards) connects on: the security groups admit it or refuse it.
Connect(dst, proto, port) ==
  /\ NetFrame
  /\ bs.constructed
  /\ flow # <<>> /\ Len(flow) < MaxHops
  /\ Last(flow).node # "alb"
  /\ dst \in {"alb"} \cup Apps /\ dst # Last(flow).node
  /\ IF Admitted(bs, Last(flow).node, dst, proto, port)
     THEN /\ flow' = Append(flow, Hop(dst, proto, port))
          /\ refused' = NoAttempt
     ELSE /\ refused' = [src |-> Last(flow).node, dst |-> dst, proto |-> proto, port |-> port]
          /\ UNCHANGED flow

\* The load balancer forwards a connection it accepted on a listener.
AlbForward(target, port) ==
  /\ NetFrame
  /\ bs.constructed
  /\ flow # <<>> /\ Len(flow) < MaxHops
  /\ Last(flow).node = "alb" /\ Last(flow).proto = "tcp"
  /\ <<target, port>> \in ForwardTargets(bs, Last(flow).port)
  /\ IF Admitted(bs, "alb", target, "tcp", port)
     THEN /\ flow' = Append(flow, Hop(target, "tcp", port))
          /\ refused' = NoAttempt
     ELSE /\ refused' = [src |-> "alb", dst |-> target, proto |-> "tcp", port |-> port]
          /\ UNCHANGED flow

NetNext ==
  \/ \E node \in Nodes : Originate(node)
  \/ \E dst \in Nodes, proto \in Protocols, port \in Ports : Connect(dst, proto, port)
  \/ \E target \in Apps, port \in Ports : AlbForward(target, port)

(***************************************************************************)
(* Requests to the load balancer of GcAlbFargateStack, through its WebACL  *)
(***************************************************************************)

RECURSIVE SortByPriority(_)
SortByPriority(rules) ==
  IF rules = {} THEN <<>>
  ELSE LET first == CHOOSE r \in rules : \A q \in rules : r.priority <= q.priority
       IN <<first>> \o SortByPriority(rules \ {first})

\* The rules of the WebACL in the order they are evaluated.
EvaluationOrder(acl) == SortByPriority(Range(acl.rules))

RuleNames(acl) == {acl.rules[i].name : i \in DOMAIN acl.rules}

WafInit ==
  /\ wafReq = {}
  /\ wafPos = 0
  /\ wafCounted = {}
  /\ wafVerdict = "none"

\* A request arrives at the associated load balancer; `matches` are the rule
\* groups holding a rule that blocks it.
WafRequest(matches) ==
  /\ WafFrame
  /\ gc.constructed
  /\ wafVerdict # "pending"
  /\ \E a \in gc.webAclAssociations : a.resource = gc.lbForApp.id /\ a.webAcl = gc.webAcl.id
  /\ wafReq' = matches
  /\ wafPos' = 0
  /\ wafCounted' = {}
  /\ wafVerdict' = "pending"

\* The next rule is evaluated: the action of a matching rule group blocks the
\* request unless the rule overrides it to count.
WafEvaluateRule ==
  /\ WafFrame
  /\ gc.constructed
  /\ wafVerdict = "pending"
  /\ wafPos < Len(EvaluationOrder(gc.webAcl))
  /\ LET rule == EvaluationOrder(gc.webAcl)[wafPos + 1] IN
       /\ wafPos' = wafPos + 1
       /\ wafCounted' = IF rule.name \in wafReq /\ rule.overrideAction = "count"
                        THEN wafCounted \cup {rule.name} ELSE wafCounted
       /\ wafVerdict' = IF rule.name \in wafReq /\ rule.overrideAction # "count"
                        THEN "BLOCK" ELSE "pending"
  /\ UNCHANGED wafReq

\* No rule ended the evaluation: the default action decides.
WafDefaultAction ==
  /\ WafFrame
  /\ gc.constructed
  /\ wafVerdict = "pending"
  /\ wafPos = Len(EvaluationOrder(gc.webAcl))
  /\ wafVerdict' = IF gc.webAcl.defaultAction = "allow" THEN "ALLOW" ELSE "BLOCK"
  /\ UNCHANGED <<wafReq, wafPos, wafCounted>>

WafNext ==
  \/ \E matches \in SUBSET RuleNames(gc.webAcl) : WafRequest(matches)
  \/ WafEvaluateRule
  \/ WafDefaultAction

(***************************************************************************)
(* Evaluation of one CloudWatch alarm of GcAlbFargateStack                 *)
(***************************************************************************)

\* The datapoints a metric can report: below, at and above the threshold.
DatapointValues(a) == {a.threshold - 1, a.threshold, a.threshold + 1}

Breaching(a, v) ==
  CASE a.comparisonOperator = "GreaterThanOrEqualToThreshold" -> v >= a.threshold
    [] a.comparisonOperator = "GreaterThanThreshold" -> v > a.threshold
    [] a.comparisonOperator = "LessThanThreshold" -> v < a.threshold
    [] a.comparisonOperator = "LessThanOrEqualToThreshold" -> v <= a.threshold

\* datapointsToAlarm, which is evaluationPeriods when the alarm does not set it.
DatapointsToAlarm(a) ==
  IF "datapointsToAlarm" \in DOMAIN a THEN a.datapointsToAlarm ELSE a.evaluationPeriods

\* The newest evaluationPeriods datapoints.
Recent(a, points) ==
  IF Len(points) <= a.evaluationPeriods THEN points
  ELSE SubSeq(points, Len(points) - a.evaluationPeriods + 1, Len(points))

BreachCount(a, points) == Cardinality({i \in DOMAIN points : Breaching(a, points[i])})

Evaluate(a, points) ==
  IF points = <<>> THEN "INSUFFICIENT_DATA"
  ELSE IF BreachCount(a, points) >= DatapointsToAlarm(a) THEN "ALARM" ELSE "OK"

\* The topics the actions of the alarm publish to when it enters ALARM.
ActionTopics(a) ==
  IF a.actionsEnabled THEN {a.alarmActions[i].sns : i \in DOMAIN a.alarmActions} ELSE {}

AlarmInit ==
  /\ alarm \in Range(gc.alarms)
  /\ window = <<>>
  /\ alarmState = "INSUFFICIENT_DATA"
  /\ pending = {}
  /\ published = {}
  /\ notified = TRUE

\* The metric reports the datapoint of the next period and the alarm is
\* evaluated; on entering ALARM its actions are started.
Datapoint(v) ==
  /\ AlarmFrame
  /\ v \in DatapointValues(alarm)
  /\ window' = Recent(alarm, Append(window, v))
  /\ alarmState' = Evaluate(alarm, window')
  /\ IF alarmState # "ALARM" /\ alarmState' = "ALARM"
     THEN /\ pending' = pending \cup ActionTopics(alarm)
          /\ notified' = FALSE
     ELSE UNCHANGED <<pending, notified>>
  /\ UNCHANGED <<alarm, published>>

\* A started action publishes the notification to its topic.
Publish(topic) ==
  /\ AlarmFrame
  /\ topic \in pending
  /\ pending' = pending \ {topic}
  /\ published' = published \cup {topic}
  /\ notified' = (notified \/ topic = gc.props.alarmTopic)
  /\ UNCHANGED <<alarm, window, alarmState>>

AlarmNext ==
  \/ \E v \in DatapointValues(alarm) : Datapoint(v)
  \/ \E topic \in Topics : Publish(topic)

(***************************************************************************)
(* The auto scaling group of BsEc2appStack                                 *)
(***************************************************************************)

CpuValues == {20, 50, 80}

\* An instance the group launches: in the subnets, with the security group and
\* registered with the target groups the group is configured with.
LaunchInstance(fleet, slot) ==
  [slot |-> slot, subnetGroupName |-> fleet.subnetGroupName,
   securityGroup |-> fleet.securityGroup, targetGroups |-> fleet.targetGroups,
   inGrace |-> TRUE, health |-> "Healthy"]

FreeSlot(group) ==
  CHOOSE n \in 1..(Cardinality(group) + 1) : \A i \in group : i.slot # n

\* The group starts at its minimum capacity: no desired capacity is given.
AsgInit ==
  /\ desired = bs.fleetForApp.minCapacity
  /\ instances = {LaunchInstance(bs.fleetForApp, n) : n \in 1..bs.fleetForApp.minCapacity}
  /\ cpu \in CpuValues

CpuChanges(v) ==
  /\ AsgFrame
  /\ cpu # v
  /\ cpu' = v
  /\ UNCHANGED <<desired, instances>>

\* keepSpareCPU: above the target the policy adds capacity, up to maxCapacity.
ScaleOut ==
  /\ AsgFrame
  /\ cpu > bs.fleetForApp.scaling.targetUtilizationPercent
  /\ desired < bs.fleetForApp.maxCapacity
  /\ desired' = desired + 1
  /\ UNCHANGED <<instances, cpu>>

\* Below the target it removes capacity, down to minCapacity.
ScaleIn ==
  /\ AsgFrame
  /\ cpu < bs.fleetForApp.scaling.targetUtilizationPercent
  /\ desired > bs.fleetForApp.minCapacity
  /\ desired' = desired - 1
  /\ UNCHANGED <<instances, cpu>>

\* The group launches an instance while it holds fewer than desired.
Launch ==
  /\ AsgFrame
  /\ Cardinality(instances) < desired
  /\ instances' = instances \cup {LaunchInstance(bs.fleetForApp, FreeSlot(instances))}
  /\ UNCHANGED <<desired, cpu>>

\* The group terminates an instance while it holds more than desired.
Terminate(i) ==
  /\ AsgFrame
  /\ i \in instances
  /\ Cardinality(instances) > desired
  /\ instances' = instances \ {i}
  /\ UNCHANGED <<desired, cpu>>

\* The health check grace period of an instance ends.
GraceEnds(i) ==
  /\ AsgFrame
  /\ i \in instances /\ i.inGrace
  /\ instances' = (instances \ {i}) \cup {[i EXCEPT !.inGrace = FALSE]}
  /\ UNCHANGED <<desired, cpu>>

\* The load balancer reports a registered instance unhealthy; the group takes
\* the report once the grace period is over.
HealthCheckFails(i) ==
  /\ AsgFrame
  /\ bs.fleetForApp.healthCheck.type = "ELB"
  /\ i \in instances /\ ~i.inGrace /\ i.health = "Healthy"
  /\ i.targetGroups # {}
  /\ instances' = (instances \ {i}) \cup {[i EXCEPT !.health = "Unhealthy"]}
  /\ UNCHANGED <<desired, cpu>>

\* The group terminates an unhealthy instance; its replacement is launched
\* afterwards, by Launch.
TerminateUnhealthy(i) ==
  /\ AsgFrame
  /\ i \in instances /\ i.health = "Unhealthy"
  /\ instances' = instances \ {i}
  /\ UNCHANGED <<desired, cpu>>

AsgNext ==
  \/ \E v \in CpuValues : CpuChanges(v)
  \/ ScaleOut
  \/ ScaleIn
  \/ Launch
  \/ \E i \in instances : Terminate(i)
  \/ \E i \in instances : GraceEnds(i)
  \/ \E i \in instances : HealthCheckFails(i)
  \/ \E i \in instances : TerminateUnhealthy(i)

(***************************************************************************)
(* Specifications: each part of the deployment on its own, the rest idle   *)
(***************************************************************************)

EntryIdle ==
  /\ env = [account |-> "", region |-> ""]
  /\ param = [envName |-> ""]
  /\ run = 0 /\ pc = "idle" /\ app = <<>> /\ results = <<>>
CtorIdle == bs = NotConstructed /\ gc = NotConstructed /\ inv = NotConstructed
Deployed ==
  /\ bs = BsEc2appStack(BsId, DeployedBsProps)
  /\ gc = GcAlbFargateStack(GcId, DeployedGcProps)
  /\ inv = NotConstructed
S3Idle == S3Init
NetIdle == NetInit
WafIdle == WafInit
AlarmIdle ==
  /\ alarm = [id |-> ""] /\ window = <<>> /\ alarmState = "none"
  /\ pending = {} /\ published = {} /\ notified = TRUE
AsgIdle == desired = 0 /\ instances = {} /\ cpu = 0

InitEntry ==
  /\ EntryInit /\ CtorIdle /\ S3Idle /\ NetIdle /\ WafIdle /\ AlarmIdle /\ AsgIdle
InitCtor ==
  /\ EntryIdle /\ CtorIdle /\ S3Idle /\ NetIdle /\ WafIdle /\ AlarmIdle /\ AsgIdle
InitS3 ==
  /\ EntryIdle /\ Deployed /\ S3Init /\ NetIdle /\ WafIdle /\ AlarmIdle /\ AsgIdle
InitNet ==
  /\ EntryIdle /\ S3Idle /\ WafIdle /\ AlarmIdle /\ AsgIdle /\ NetInit
  /\ \E props \in BsEc2appStackPropsSet : bs = BsEc2appStack(BsId, props)
  /\ gc = NotConstructed /\ inv = NotConstructed
InitWaf ==
  /\ EntryIdle /\ Deployed /\ S3Idle /\ NetIdle /\ WafInit /\ AlarmIdle /\ AsgIdle
InitAlarm ==
  /\ EntryIdle /\ S3Idle /\ NetIdle /\ WafIdle /\ AsgIdle
  /\ bs = NotConstructed /\ inv = NotConstructed
  /\ \E topic \in Topics :
       gc = GcAlbFargateStack(GcId, [DeployedGcProps EXCEPT !.alarmTopic = topic])
  /\ AlarmInit
InitAsg ==
  /\ EntryIdle /\ Deployed /\ S3Idle /\ NetIdle /\ WafIdle /\ AlarmIdle /\ AsgInit

\* Runs of the application entry point.
SpecEntry == InitEntry /\ [][EntryNext]_vars

\* Construction of the three stacks of src/lib, with any props.
SpecCtor == InitCtor /\ [][CtorNext]_vars

\* Requests to the web content buckets of the deployed stacks.
SpecS3 == InitS3 /\ [][S3Next]_vars

\* Connections in the VPC of the deployed BsEc2appStack, whatever its props.
SpecNet == InitNet /\ [][NetNext]_vars

\* Requests through the WebACL of the deployed GcAlbFargateStack.
SpecWaf == InitWaf /\ [][WafNext]_vars

\* One alarm of the deployed GcAlbFargateStack, whatever topic the stack was
\* given.  CloudWatch carries out an alarm action it has started.
SpecAlarm ==
  InitAlarm /\ [][AlarmNext]_vars /\ WF_vars(\E topic \in Topics : Publish(topic))

\* The auto scaling group of the deployed BsEc2appStack.
SpecAsg == InitAsg /\ [][AsgNext]_vars

(***************************************************************************)
(* Properties                                                              *)
(***************************************************************************)

\* C1: once its constructor has completed, each stack's public security-group
\* output (appServerSecurityGroup of BsEc2appStack and of GcAlbFargateStack,
\* InvestigationInstanceSecurityGroup of GcInvestigationInstanceStack) is
\* defined and is a security group the stack itself created.
C1_OutputsDefined ==
  /\ bs.constructed =>
       /\ bs.appServerSecurityGroup # Undefined
       /\ \E sg \in bs.securityGroups : sg.id = bs.appServerSecurityGroup
  /\ gc.constructed =>
       /\ gc.appServerSecurityGroup # Undefined
       /\ \E sg \in gc.securityGroups : sg.id = gc.appServerSecurityGroup
  /\ inv.constructed =>
       /\ inv.InvestigationInstanceSecurityGroup # Undefined
       /\ \E sg \in inv.securityGroups : sg.id = inv.InvestigationInstanceSecurityGroup

\* The stacks a stack of the tree takes a value from.
Producers(st) == {st.refs[n][1] : n \in {m \in DOMAIN st.refs : st.refs[m] # Undefined}}
DependsOn(tree) ==
  {d \in {EcsAppId, FrontendId, MonitoringId} \X {EcsAppId, FrontendId, MonitoringId} :
     \E i \in DOMAIN tree : tree[i].id = d[1] /\ d[2] \in Producers(tree[i])}

\* Transitive closure of a relation over the three stacks.
Closure(R) ==
  LET ids == {EcsAppId, FrontendId, MonitoringId}
      Step(S) == S \cup {d \in ids \X ids : \E m \in ids : <<d[1], m>> \in S /\ <<m, d[2]>> \in S}
  IN Step(Step(Step(R)))

\* C2: in the entry point every cross-stack value passed to a stack is an
\* output of a stack constructed earlier; the frontend stack takes only
\* ecsapp.alarmTopic, the monitoring stack takes nine outputs of ecsapp and
\* frontend.distributionId; the dependency relation is acyclic.
C2_WiringFollowsConstructionOrder ==
  /\ \A i \in DOMAIN app :
       /\ \A n \in DOMAIN app[i].refs :
            /\ app[i].refs[n] # Undefined
            /\ \E j \in 1..(i - 1) : app[j].id = app[i].refs[n][1]
       /\ app[i].id = EcsAppId => DOMAIN app[i].refs = {}
       /\ app[i].id = FrontendId =>
            app[i].refs = [alarmTopic |-> <<"BLEAEcsAppSampleDev", "alarmTopic">>]
       /\ app[i].id = MonitoringId =>
            /\ DOMAIN app[i].refs =
                 {"alarmTopic", "albFullName", "albTargetGroupName",
                  "albTargetGroupUnhealthyHostCountAlarm", "ecsClusterName", "ecsServiceName",
                  "ecsScaleOnRequestCount", "ecsTargetUtilizationPercent", "dbClusterName",
                  "distributionId"}
            /\ \A n \in DOMAIN app[i].refs :
                 app[i].refs[n] = <<IF n = "distributionId" THEN "BLEAEcsFrontendSampleDev"
                                    ELSE "BLEAEcsAppSampleDev", n>>
  /\ \A id \in {EcsAppId, FrontendId, MonitoringId} : <<id, id>> \notin Closure(DependsOn(app))
  /\ Len(app) = 3 =>
       Closure(DependsOn(app)) = {<<FrontendId, EcsAppId>>, <<MonitoringId, EcsAppId>>,
                                   <<MonitoringId, FrontendId>>}

C2_Witness ==
  /\ pc = "done" /\ Len(app) = 3
  /\ app[3].id = MonitoringId
  /\ app[3].refs.distributionId = <<FrontendId, "distributionId">>
  /\ app[2].refs.alarmTopic = <<EcsAppId, "alarmTopic">>

C4_InsecureRequestsDenied ==
  (s3req.stack \in {BsId, GcId} /\ ~s3req.secure) => s3dec = "Deny"

\* C5: the policy of the BsEc2appStack web content bucket denies every
\* s3:PutObject whose s3:x-amz-server-side-encryption header is absent or
\* differs from the accepted value, so no object is stored by a request that
\* does not ask for server-side encryption.
C5_UnencryptedPutDenied ==
  /\ (s3req.stack = BsId /\ s3req.action = <<"s3:", "PutObject">> /\ s3req.sse # "AES256")
       => s3dec = "Deny"
  /\ \A k \in Keys : stored[k] \in {"none", "AES256"}

C5_Witness ==
  /\ s3req.stack = BsId /\ s3req.action = <<"s3:", "PutObject">>
  /\ s3req.sse = "absent" /\ s3req.secure /\ s3req.identityAllows
  /\ s3dec = "Deny"
  /\ \E k \in Keys : stored[k] = "AES256"

\* C6: in BsEc2appStack the load balancer's security group admits ingress
\* only on TCP 80 from any IPv4 address, the application security group only
\* on TCP 80 from the load balancer's group, the listener on port 80 forwards
\* to the target group on port 80 the fleet is attached to, and every
\* connection that reaches an application instance came from the load
\* balancer.
C6_AppReachedOnlyThroughAlb ==
  LET albSg == SgById(bs, bs.lbForApp.securityGroup)
      appSg == SgById(bs, bs.fleetForApp.securityGroup)
  IN /\ albSg.id # appSg.id
     /\ albSg.ingress = {[peer |-> [kind |-> "cidr", ref |-> <<"0.0.0.0/0">>],
                          proto |-> "tcp", from |-> 80, to |-> 80]}
     /\ appSg.ingress = {[peer |-> [kind |-> "sg", ref |-> albSg.id],
                          proto |-> "tcp", from |-> 80, to |-> 80]}
     /\ \A l \in bs.listeners :
          /\ l.loadBalancer = bs.lbForApp.id /\ l.port = 80
          /\ l.defaultTargetGroups = {bs.tgForApp.id}
     /\ bs.listeners # {}
     /\ bs.tgForApp.port = 80 /\ bs.tgForApp.id \in bs.fleetForApp.targetGroups
     /\ \A i \in DOMAIN flow :
          flow[i].node \in Apps /\ i > 1 =>
            /\ flow[i - 1].node = "alb"
            /\ flow[i].proto = "tcp" /\ flow[i].port = 80
     /\ refused.dst \in Apps => refused.src # "alb" \/ refused.port # 80

C6_Witness ==
  /\ Len(flow) = 3
  /\ flow[1].node = "internet" /\ flow[2].node = "alb" /\ flow[3].node \in Apps
  /\ refused = NoAttempt

\* C7: the WebACL GcWebAcl of the load balancer evaluates its five managed
\* rule groups in priority order 1..5 (CommonRuleSet, KnownBadInputsRuleSet,
\* AmazonIpReputationList, LinuxRuleSet, SQLiRuleSet), each named after its
\* rule group with metric name "AWS-" + name, each overriding to count, with
\* default action allow: no request is blocked, whichever rules it matches.
C7_WebAclNeverBlocks ==
  LET acl == gc.webAcl
      order == EvaluationOrder(acl)
  IN /\ acl.name = "GcWebAcl" /\ acl.scope = "REGIONAL" /\ acl.defaultAction = "allow"
     /\ \E a \in gc.webAclAssociations : a.webAcl = acl.id /\ a.resource = gc.lbForApp.id
     /\ Len(acl.rules) = 5 /\ Cardinality(RuleNames(acl)) = 5
     /\ [i \in 1..5 |-> order[i].name] =
          <<"AWSManagedRulesCommonRuleSet", "AWSManagedRulesKnownBadInputsRuleSet",
            "AWSManagedRulesAmazonIpReputationList", "AWSManagedRulesLinuxRuleSet",
            "AWSManagedRulesSQLiRuleSet">>
     /\ \A i \in 1..5 :
          /\ order[i].priority = i
          /\ acl.rules[i] = order[i]
          /\ order[i].statement = [vendorName |-> "AWS", name |-> order[i].name]
          /\ order[i].metricName = "AWS-" \o order[i].name
          /\ order[i].overrideAction = "count"
     /\ wafVerdict # "BLOCK"
     /\ wafVerdict = "ALLOW" => (wafPos = 5 /\ wafCounted = wafReq)

C7_Witness ==
  /\ wafVerdict = "ALLOW"
  /\ wafReq = RuleNames(gc.webAcl)
  /\ wafCounted = wafReq

C8_AlarmActions ==
  /\ [i \in DOMAIN gc.alarms |-> gc.alarms[i].id] =
       <<"FargateCpuUtil", "RunningTaskCount", "AlbResponseTime", "AlbHttp4xx", "AlbHttp5xx",
         "AlbTgHealthyHostCount">>
  /\ \A i \in DOMAIN gc.alarms :
       /\ gc.alarms[i].actionsEnabled
       /\ gc.alarms[i].alarmActions = <<[sns |-> gc.props.alarmTopic]>>
  /\ pending \subseteq {gc.props.alarmTopic}
  /\ published \subseteq {gc.props.alarmTopic}

\* C8: each of the six alarms of GcAlbFargateStack has its actions enabled
\* and exactly one alarm action, an SNS notification to the alarmTopic of the
\* props; whenever the alarm enters ALARM a notification is eventually
\* published to that topic, and none is published to any other topic.
C8_AlarmsNotifyTopic ==
  /\ []C8_AlarmActions
  /\ (alarmState = "ALARM" /\ ~notified) ~> notified

C8_Witness ==
  /\ alarm.id = "AlbHttp5xx" /\ alarmState = "ALARM"
  /\ notified /\ pending = {} /\ published = {gc.props.alarmTopic}
  /\ gc.props.alarmTopic = "topic-other"

\* C9: RunningTaskCount is in ALARM exactly when at least 2 of the 3 most
\* recent datapoints are below 1, FargateCpuUtil exactly when all 3 of the 3
\* most recent datapoints are at or above 80; one breaching datapoint alone
\* puts neither into ALARM.
C9_AlarmThresholds ==
  LET below == {i \in DOMAIN window : window[i] < 1}
      high == {i \in DOMAIN window : window[i] >= 80}
  IN /\ Len(window) <= 3
     /\ alarm.id = "RunningTaskCount" =>
          /\ (alarmState = "ALARM") <=> (Cardinality(below) >= 2)
          /\ Cardinality(below) = 1 => alarmState # "ALARM"
     /\ alarm.id = "FargateCpuUtil" =>
          /\ (alarmState = "ALARM") <=> (Len(window) = 3 /\ Cardinality(high) = 3)
          /\ Cardinality(high) = 1 => alarmState # "ALARM"

C9_Witness ==
  /\ alarm.id = "RunningTaskCount" /\ alarmState = "ALARM"
  /\ Len(window) = 3
  /\ Cardinality({i \in DOMAIN window : window[i] < 1}) = 2

\* What every instance of the group carries: the private subnet group, the
\* application security group and the registration with the target group the
\* load balancer's listener forwards to.
C10_InstancesConfigured ==
  \A i \in instances :
    /\ i.subnetGroupName = "ProdPrivateSubnet"
    /\ i.securityGroup = bs.appServerSecurityGroup
    /\ bs.tgForApp.id \in i.targetGroups
    /\ \E l \in bs.listeners :
         l.loadBalancer = bs.lbForApp.id /\ bs.tgForApp.id \in l.defaultTargetGroups

\* C10 as stated: under any scaling decisions of keepSpareCPU and any
\* replacements by the ELB health check, the number of instances of the group
\* stays between 2 and 4, and every instance is in ProdPrivateSubnet, carries
\* the application security group and is registered with the target group.
C10_InstanceCountWithinCapacity ==
  /\ Cardinality(instances) >= 2 /\ Cardinality(instances) <= 4
  /\ C10_InstancesConfigured

\* C10 as amended: the desired capacity of the group stays between 2 and 4
\* and the group never holds more than 4 instances (it holds fewer than 2
\* while an unhealthy instance it terminated awaits its replacement); every
\* instance is configured as stated.
C10_DesiredCapacityWithinBounds ==
  /\ desired >= 2 /\ desired <= 4
  /\ Cardinality(instances) <= 4
  /\ C10_InstancesConfigured
  /\ bs.fleetForApp.scaling = [id |-> "keepSpareCPU", targetUtilizationPercent |-> 50]
  /\ bs.fleetForApp.healthCheck = [type |-> "ELB", grace |-> 60]

C10_Witness ==
  /\ desired = 4 /\ Cardinality(instances) = 4 /\ cpu = 80
  /\ \E i \in instances : i.health = "Unhealthy"

====
